---- MODULE Spec2Model ----
\* Model of the research-portal REST backend: the five iterations of the
\* express router (src/unnamed/part_000 holds two of them, src/server.js,
\* src/unnamed/part_001 and src/unnamed/part_002 one each), their verifyAuth
\* middleware, the multer upload middleware and the route handlers, run
\* against the external identity provider, relational store and blob store.
EXTENDS Integers, Sequences, FiniteSets, TLC

\* ------------------------------------------------------------------ bounds
MaxRequests == 3
MaxUuid == 2
\* the calendar days a run spans are 0..MaxDay
MaxDay == 2

\* ---------------------------------------------------------------- variants
V_SelfIssued == "part_000:1-216"
V_ProviderJwt == "part_000:218-502"
V_Server == "server.js"
V_Plaintext == "part_001"
V_Delegated == "part_002"

Variants == {V_SelfIssued, V_ProviderJwt, V_Server, V_Plaintext, V_Delegated}

\* routes registered by each iteration (app.get / app.post)
Routes(v) ==
  {"anonKey", "summary"} \cup
  CASE v = V_SelfIssued  -> {"login", "members", "research", "log", "researchList"}
    [] v = V_ProviderJwt -> {"login", "members", "research", "upload", "log", "researchList", "me"}
    [] v = V_Server      -> {"login", "members", "research", "researchList", "me", "devImage"}
    [] v = V_Plaintext   -> {"login", "members", "research", "log"}
    [] v = V_Delegated   -> {"login", "members", "research", "upload"}

\* routes registered with the verifyAuth middleware
AuthRoutes == {"members", "summary", "research", "upload", "log", "researchList", "me"}

\* ------------------------------------------------------------- JSON values
Undefined == [t |-> "undefined"]
Null == [t |-> "null"]
Str(s) == [t |-> "string", s |-> s]
Num(n) == [t |-> "number", n |-> n]
\* a string whose characters do not matter (an email, a password, a URL)
Txt(v) == [t |-> "text", v |-> v]

\* JavaScript truthiness, as used by `!x` and `x || y`
Truthy(v) ==
  CASE v.t = "string" -> v.s # <<>>
    [] v.t = "number" -> v.n # 0
    [] v.t = "text"   -> v.v # ""
    [] v.t = "url"    -> TRUE
    [] OTHER          -> FALSE

IsSpace(c) == c = " "

RECURSIVE TrimStart(_)
TrimStart(s) == IF s # <<>> /\ IsSpace(Head(s)) THEN TrimStart(Tail(s)) ELSE s

RECURSIVE TrimEnd(_)
TrimEnd(s) ==
  IF s # <<>> /\ IsSpace(s[Len(s)]) THEN TrimEnd(SubSeq(s, 1, Len(s) - 1)) ELSE s

\* String.prototype.trim
Trim(s) == TrimEnd(TrimStart(s))

\* ---------------------------------------------------------------- accounts
\* rows of the profiles table (the plaintext password column is only read by
\* the part_001 login); the identity provider knows the same accounts
ProfilesTable ==
  << [id |-> "u1", name |-> "Ann", email |-> "a@x.com", password |-> "pa"],
     [id |-> "u2", name |-> "Bob", email |-> "b@x.com", password |-> "pb"] >>

UserIds == {ProfilesTable[i].id : i \in DOMAIN ProfilesTable}
NoUser == "none"

\* ------------------------------------------------------------------ tokens
\* A JWT is its signing key, its claims and whether its exp has passed.
\* The provider signs its access tokens with its own project secret.
SupabaseJwtSecret == "supabase-secret"
JwtSecrets == {SupabaseJwtSecret, "other-secret"}
NotJwt == [jwt |-> FALSE]
Jwt(key, id, sub, expired) ==
  [jwt |-> TRUE, key |-> key, id |-> id, sub |-> sub, expired |-> expired]

\* jwt.sign({id, email, name}, jwtSecret, {expiresIn: "12h"})
jwtSign(id, secret) == Jwt(secret, id, NoUser, FALSE)
\* the access_token of the provider's password grant: sub carries the user id
ProviderToken(uid) == Jwt(SupabaseJwtSecret, NoUser, uid, FALSE)

\* a verification that does not look at exp
jwtVerifyOk_IgnoreExp(token, secret) == token.jwt /\ token.key = secret

\* jwt.verify(token, secret): TRUE when it returns the claims, FALSE when it throws
jwtVerifyOk(token, secret) ==
  token.jwt /\ token.key = secret /\ ~token.expired

\* tokens the provider accepts on "get user from token": its own, unexpired
ProviderAccepts(token) == jwtVerifyOk(token, SupabaseJwtSecret)

\* ----------------------------------------------------------------- headers
\* An Authorization header value is kept as authHeader.split(" "): the word
\* before the first space, then the words after it.
Header(words) == [t |-> "header", words |-> words]

\* authHeader.startsWith("Bearer ")
StartsWithBearer(h) == Len(h.words) >= 2 /\ h.words[1] = "Bearer"

\* a verifyAuth that only checks that the header is there
HeaderRejected_PresenceOnly(h) == h.t = "undefined"

\* !authHeader || !authHeader.startsWith("Bearer ")
HeaderRejected(h) == h.t = "undefined" \/ ~StartsWithBearer(h)

\* authHeader.split(" ")[1]: undefined (never a JWT) when there is no second word
HeaderToken(h) == IF Len(h.words) >= 2 THEN h.words[2] ELSE NotJwt

\* ------------------------------------------------------------------- files
\* multer limit of part_002: limits.fileSize
FileSizeLimit == 10 * 1024 * 1024
ElevenMiB == 11 * 1024 * 1024

Pdf == "application/pdf"
Zip == "application/zip"
allowedMimeTypes ==
  { Pdf, "image/jpeg", "image/png", "image/gif", "application/msword",
    "application/vnd.openxmlformats-officedocument.wordprocessingml.document",
    "text/plain" }

NoFile == [present |-> FALSE]
File(mimetype, size, originalname) ==
  [present |-> TRUE, mimetype |-> mimetype, size |-> size, originalname |-> originalname]

ToLowerChar(c) == CASE c = "P" -> "p" [] c = "D" -> "d" [] c = "F" -> "f" [] OTHER -> c
ToLower(s) == [i \in DOMAIN s |-> ToLowerChar(s[i])]

\* path.extname: from the last "." of the name, "" when there is none or the
\* name starts with its only "."
ExtName(name) ==
  LET dots == {i \in DOMAIN name : name[i] = "."}
      last == CHOOSE i \in dots : \A j \in dots : j <= i
  IN  IF dots = {} \/ last = 1 THEN <<>> ELSE SubSeq(name, last, Len(name))

NoKey == [uuid |-> 0, ext |-> <<>>]
\* `${uuidv4()}${fileExt}`
FileName(uuid, ext) == [uuid |-> uuid, ext |-> ext]
\* storage.from(bucket).getPublicUrl(fileName).data.publicUrl
PublicUrl(fileName) == [t |-> "url", bucket |-> "research-files", key |-> fileName]

\* ------------------------------------------------------------------- state
VARIABLES
  variant,    \* which iteration of the server is deployed
  jwtSecret,  \* process.env.JWT_SECRET of the deployment
  today,      \* dayjs().startOf("day"), as a day number
  research,   \* rows of the research table, in insertion order
  created,    \* the created_at column of research, as day numbers
  logs,       \* rows of the logs table, in insertion order
  bucket,     \* objects of the "research-files" bucket
  issued,     \* <<token, account id>> for every access_token a login returned
  arrived,    \* number of requests received so far
  reqs        \* per connection: the request being handled or just answered

vars == <<variant, jwtSecret, today, research, created, logs, bucket, issued, arrived, reqs>>

Slots == {"c1", "c2"}
SeqSlots == {"c1"}

Outcomes == {"ok", "error", "throw"}

IdleReq ==
  [ pc |-> "idle", route |-> "", hdr |-> Undefined, user |-> NoUser,
    email |-> Undefined, password |-> Undefined,
    description |-> Undefined, file_url |-> Undefined, user_id |-> Undefined,
    file |-> NoFile, fileName |-> NoKey, url |-> Null,
    status |-> 0, message |-> "", by |-> "", token |-> NotJwt,
    calls |-> 0, handler |-> FALSE, failed |-> "",
    objects |-> 0, records |-> 0, entries |-> 0, inserted |-> Null,
    profiles |-> <<>>, window |-> Null, windows |-> <<>>, summaries |-> <<>>,
    body |-> Null ]

\* res.status(code).json({message}) from the service's own code
Respond(r, code, message) ==
  [r EXCEPT !.pc = "done", !.status = code, !.message = message, !.by = "service"]

\* next(err) with no error-handling middleware registered: express's default
\* handler answers err.status || 500 with its own (non-JSON) body
ExpressDefaultError(r, message) ==
  [r EXCEPT !.pc = "done", !.status = 500, !.message = message, !.by = "framework"]

Init ==
  /\ variant \in Variants
  /\ jwtSecret \in JwtSecrets
  /\ today = 0
  /\ research = <<>>
  /\ created = <<>>
  /\ logs = <<>>
  /\ bucket = {}
  /\ issued = {}
  /\ arrived = 0
  /\ reqs = [s \in Slots |-> IdleReq]

\* iterations whose login signs its own token with JWT_SECRET
SelfSigns(v) == v \in {V_SelfIssued, V_Plaintext}

\* the key the access tokens of a deployment's login are signed with
LoginKey(v, secret) == IF SelfSigns(v) THEN secret ELSE SupabaseJwtSecret

\* tokens a client can present: the access tokens logins have returned, one
\* of an earlier login whose exp has passed, one signed by somebody else, and
\* a string that is no JWT
PresentableTokens ==
  {p[1] : p \in issued}
  \cup { NotJwt,
         Jwt("attacker-secret", "u1", "u1", FALSE),
         Jwt(LoginKey(variant, jwtSecret), "u1", "u1", TRUE) }

Headers ==
  { Undefined, Header(<<"Bearer">>), Header(<<"Basic", NotJwt>>),
    Header(<<"bearer", ProviderToken("u1")>>) }
  \cup {Header(<<"Bearer", t>>) : t \in PresentableTokens}

\* a request for one of the given routes reaches the router
ArriveRoute(s, routes) ==
  /\ arrived < MaxRequests
  /\ reqs[s].pc \in {"idle", "done"}
  /\ \E route \in routes :
       \E h \in (IF route \in AuthRoutes THEN Headers ELSE {Undefined}) :
         reqs' = [reqs EXCEPT ![s] =
                    [IdleReq EXCEPT !.pc = IF route \in AuthRoutes THEN "auth" ELSE "handler",
                                    !.route = route, !.hdr = h]]
  /\ arrived' = arrived + 1
  /\ UNCHANGED <<variant, jwtSecret, today, research, created, logs, bucket, issued>>

\* a request reaches the router
Arrive(s) == ArriveRoute(s, Routes(variant))

\* where a request goes when verifyAuth calls next()
AfterAuth(route) == IF route = "upload" THEN "multer" ELSE "handler"

\* req.user.id after a successful local verification
DecodedId(v, token) ==
  IF v \in {V_ProviderJwt, V_Server}
  THEN \* req.user = { id: decoded.sub, ...decoded }: an id claim overrides
       IF token.id # NoUser THEN token.id ELSE token.sub
  ELSE \* req.user = decoded
       token.id

\* verifyAuth of the iterations that verify the signature locally
verifyAuthLocal(s) ==
  LET r == reqs[s] IN
  /\ variant # V_Delegated
  /\ r.pc = "auth"
  /\ reqs' = [reqs EXCEPT ![s] =
       IF HeaderRejected(r.hdr)
       THEN Respond(r, 401, "Authorization header missing or invalid")
       ELSE IF jwtVerifyOk(HeaderToken(r.hdr), jwtSecret)
            THEN [r EXCEPT !.pc = AfterAuth(r.route),
                           !.token = HeaderToken(r.hdr),
                           !.user = DecodedId(variant, HeaderToken(r.hdr))]
            ELSE Respond([r EXCEPT !.token = HeaderToken(r.hdr)],
                         401, "Invalid or expired token")]
  /\ UNCHANGED <<variant, jwtSecret, today, research, created, logs, bucket, issued, arrived>>

\* verifyAuth of part_002: supabase.auth.getUser(token)
verifyAuthDelegated(s) ==
  LET r == reqs[s] IN
  /\ variant = V_Delegated
  /\ r.pc = "auth"
  /\ IF HeaderRejected(r.hdr)
     THEN reqs' = [reqs EXCEPT ![s] =
                     Respond(r, 401, "Authorization header missing or invalid")]
     ELSE LET token == HeaderToken(r.hdr)
              c == [r EXCEPT !.calls = @ + 1, !.token = token]
          IN \E o \in Outcomes :
               reqs' = [reqs EXCEPT ![s] =
                 CASE o = "throw" ->
                        Respond([c EXCEPT !.failed = "auth"], 401, "Token verification failed")
                   [] o = "error" ->
                        Respond([c EXCEPT !.failed = "auth"], 401, "Invalid or expired token")
                   [] o = "ok" /\ ProviderAccepts(token) ->
                        [c EXCEPT !.pc = AfterAuth(r.route), !.user = token.sub]
                   [] OTHER -> Respond(c, 401, "Invalid or expired token")]
  /\ UNCHANGED <<variant, jwtSecret, today, research, created, logs, bucket, issued, arrived>>

\* ------------------------------------------------------------------- login
Emails == {Undefined, Txt("a@x.com"), Txt("b@x.com"), Txt("nobody@x.com")}
Passwords == {Undefined, Txt("pa"), Txt("pb")}

\* rows of profiles matching .eq("email", email)
ProfilesByEmail(email) ==
  {i \in DOMAIN ProfilesTable : email.t = "text" /\ ProfilesTable[i].email = email.v}

\* the account the provider's password grant signs in, if any
GrantAccounts(email, password) ==
  {i \in ProfilesByEmail(email) :
     password.t = "text" /\ ProfilesTable[i].password = password.v}

\* the access_token a successful login of account i returns
LoginToken(v, secret, i) ==
  IF SelfSigns(v) THEN jwtSign(ProfilesTable[i].id, secret)
                  ELSE ProviderToken(ProfilesTable[i].id)

\* POST /api/login through the provider's password grant
LoginProvider(s) ==
  LET r == reqs[s] IN
  /\ variant # V_Plaintext
  /\ r.pc = "handler" /\ r.route = "login"
  /\ \E email \in Emails, password \in Passwords, o \in Outcomes :
       LET b == [r EXCEPT !.handler = TRUE, !.email = email, !.password = password]
           c == [b EXCEPT !.calls = @ + 1]
           acc == GrantAccounts(email, password)
       IN IF ~Truthy(email) \/ ~Truthy(password)
          THEN /\ reqs' = [reqs EXCEPT ![s] = Respond(b, 400, "Email and password required")]
               /\ UNCHANGED issued
          ELSE CASE o = "throw" ->
                      /\ reqs' = [reqs EXCEPT ![s] =
                           Respond([c EXCEPT !.failed = "login"], 500, "Internal server error")]
                      /\ UNCHANGED issued
                 [] o = "ok" /\ acc # {} ->
                      LET i == CHOOSE i \in acc : TRUE
                          t == LoginToken(variant, jwtSecret, i)
                      IN /\ reqs' = [reqs EXCEPT ![s] =
                                       Respond([c EXCEPT !.token = t], 200, "access_token")]
                         /\ issued' = issued \cup {<<t, ProfilesTable[i].id>>}
                 [] OTHER ->
                      \* !response.ok: the grant was refused, or the provider erred
                      /\ reqs' = [reqs EXCEPT ![s] =
                           Respond([c EXCEPT !.failed = IF o = "error" THEN "login" ELSE ""],
                                   401, "Invalid credentials")]
                      /\ UNCHANGED issued
  /\ UNCHANGED <<variant, jwtSecret, today, research, created, logs, bucket, arrived>>

\* POST /api/login of part_001: profile lookup and literal password compare
LoginPlaintext(s) ==
  LET r == reqs[s] IN
  /\ variant = V_Plaintext
  /\ r.pc = "handler" /\ r.route = "login"
  /\ \E email \in Emails, password \in Passwords, o \in Outcomes :
       LET b == [r EXCEPT !.handler = TRUE, !.email = email, !.password = password]
           c == [b EXCEPT !.calls = @ + 1]
           rows == ProfilesByEmail(email)
       IN IF ~Truthy(email) \/ ~Truthy(password)
          THEN /\ reqs' = [reqs EXCEPT ![s] = Respond(b, 400, "Email and password required")]
               /\ UNCHANGED issued
          ELSE CASE o = "throw" ->
                      /\ reqs' = [reqs EXCEPT ![s] =
                           Respond([c EXCEPT !.failed = "login"], 500, "Internal server error")]
                      /\ UNCHANGED issued
                 [] o = "error" \/ Cardinality(rows) # 1 ->
                      \* .single() returns an error unless exactly one row matches
                      /\ reqs' = [reqs EXCEPT ![s] =
                           Respond([c EXCEPT !.failed = IF o = "error" THEN "login" ELSE ""],
                                   500, "Database error")]
                      /\ UNCHANGED issued
                 [] OTHER ->
                      LET i == CHOOSE i \in rows : TRUE
                          t == LoginToken(variant, jwtSecret, i)
                      IN IF ProfilesTable[i].password # password.v
                         THEN /\ reqs' = [reqs EXCEPT ![s] =
                                            Respond(c, 401, "Invalid credentials")]
                              /\ UNCHANGED issued
                         ELSE /\ reqs' = [reqs EXCEPT ![s] =
                                            Respond([c EXCEPT !.token = t], 200, "access_token")]
                              /\ issued' = issued \cup {<<t, ProfilesTable[i].id>>}
  /\ UNCHANGED <<variant, jwtSecret, today, research, created, logs, bucket, arrived>>

\* -------------------------------------------------------------- the tables
\* an insert that writes over the newest row
InsertRow_Replace(table, row) ==
  IF table = <<>> THEN <<row>> ELSE [table EXCEPT ![Len(table)] = row]

\* from(table).insert(row): the only write the service makes to a table
InsertRow(table, row) == Append(table, row)

\* ------------------------------------------------------------ read handlers
\* GET /api/anon-key
AnonKey(s) ==
  LET r == reqs[s] IN
  /\ r.pc = "handler" /\ r.route = "anonKey"
  /\ reqs' = [reqs EXCEPT ![s] = Respond([r EXCEPT !.handler = TRUE], 200, "anonKey")]
  /\ UNCHANGED <<variant, jwtSecret, today, research, created, logs, bucket, issued, arrived>>

\* GET /api/dev-image
DevImage(s) ==
  LET r == reqs[s] IN
  /\ r.pc = "handler" /\ r.route = "devImage"
  /\ \E o \in Outcomes :
       LET c == [r EXCEPT !.handler = TRUE, !.calls = @ + 1] IN
       reqs' = [reqs EXCEPT ![s] =
                  IF o = "ok" THEN Respond(c, 200, "signedUrl")
                              ELSE Respond(c, 500, "error")]
  /\ UNCHANGED <<variant, jwtSecret, today, research, created, logs, bucket, issued, arrived>>

\* GET /api/members
Members(s) ==
  LET r == reqs[s] IN
  /\ r.pc = "handler" /\ r.route = "members"
  /\ \E o \in Outcomes :
       LET c == [r EXCEPT !.handler = TRUE, !.calls = @ + 1] IN
       reqs' = [reqs EXCEPT ![s] =
                  IF o = "ok" THEN Respond(c, 200, "profiles")
                              ELSE Respond(c, 500, "error")]
  /\ UNCHANGED <<variant, jwtSecret, today, research, created, logs, bucket, issued, arrived>>

\* GET /api/me
Me(s) ==
  LET r == reqs[s] IN
  /\ r.pc = "handler" /\ r.route = "me"
  /\ \E o \in Outcomes :
       LET c == [r EXCEPT !.handler = TRUE, !.calls = @ + 1] IN
       reqs' = [reqs EXCEPT ![s] =
                  IF o = "ok" /\ r.user \in UserIds
                  THEN Respond(c, 200, "profile")
                  ELSE Respond(c, 500, "error")]
  /\ UNCHANGED <<variant, jwtSecret, today, research, created, logs, bucket, issued, arrived>>

BodyUserIds == {Undefined, Txt("u2")}

\* GET /api/research?user_id=
ResearchList(s) ==
  LET r == reqs[s] IN
  /\ r.pc = "handler" /\ r.route = "researchList"
  /\ \E uid \in BodyUserIds, o \in Outcomes :
       LET b == [r EXCEPT !.handler = TRUE, !.user_id = uid]
           c == [b EXCEPT !.calls = @ + 1]
       IN reqs' = [reqs EXCEPT ![s] =
            IF ~Truthy(uid) THEN Respond(b, 400, "user_id query param is required")
            ELSE IF o = "ok" THEN Respond(c, 200, "records")
            ELSE Respond(c, 500, "error")]
  /\ UNCHANGED <<variant, jwtSecret, today, research, created, logs, bucket, issued, arrived>>

\* ----------------------------------------------------------------- summary
\* the orders in which select("id, name") can list the profiles
Listings ==
  LET n == Len(ProfilesTable) IN
  {p \in [1..n -> 1..n] : \A i, j \in 1..n : p[i] = p[j] => i = j}

\* yesterday and tomorrow of a day: .gte(created_at, from).lt(created_at, to)
Window(day) == [from |-> day - 1, to |-> day + 1]

\* iterations that take today/tomorrow/yesterday before the loop; the others
\* take them anew for every profile
WindowOnce(v) == v \in {V_ProviderJwt, V_Server, V_Delegated}

\* from("research").select(...).eq("user_id", uid).gte(...).lt(...)
Recs(uid, w) ==
  LET idx == SelectSeq([i \in 1..Len(research) |-> i],
                       LAMBDA i : /\ research[i].user_id = uid
                                  /\ created[i] >= w.from
                                  /\ created[i] < w.to)
  IN [k \in 1..Len(idx) |->
        [id |-> idx[k], description |-> research[idx[k]].description,
         created_at |-> created[idx[k]]]]

\* a loop that puts the newest element first
pushSummary_Unshift(summaries, prof, recs) ==
  <<[id |-> prof.id, name |-> prof.name, recs |-> recs]>> \o summaries

\* summaries.push({ id: prof.id, name: prof.name, recs })
pushSummary(summaries, prof, recs) ==
  Append(summaries, [id |-> prof.id, name |-> prof.name, recs |-> recs])

\* GET /api/research-summary up to the loop: the profiles listing
SummaryList(s) ==
  LET r == reqs[s]
      c == [r EXCEPT !.handler = TRUE, !.calls = @ + 1]
  IN
  /\ r.pc = "handler" /\ r.route = "summary"
  /\ \E o \in Outcomes, listing \in Listings :
       reqs' = [reqs EXCEPT ![s] =
         IF o # "ok"
         THEN Respond([c EXCEPT !.failed = "profiles"], 500, "error")
         ELSE [c EXCEPT !.pc = "summaryLoop", !.profiles = listing,
                        !.window = IF WindowOnce(variant) THEN Window(today) ELSE Null]]
  /\ UNCHANGED <<variant, jwtSecret, today, research, created, logs, bucket, issued, arrived>>

\* one iteration of the loop: the query for the next profile, the push, and
\* res.json(summaries) after the last one
SummaryQuery(s) ==
  LET r == reqs[s]
      c == [r EXCEPT !.calls = @ + 1]
      prof == ProfilesTable[r.profiles[Len(r.summaries) + 1]]
      w == IF WindowOnce(variant) THEN r.window ELSE Window(today)
      d == [c EXCEPT !.summaries = pushSummary(@, prof, Recs(prof.id, w)),
                     !.windows = Append(@, w)]
  IN
  /\ r.pc = "summaryLoop"
  /\ \E o \in Outcomes :
       reqs' = [reqs EXCEPT ![s] =
         IF o # "ok"
         THEN Respond([c EXCEPT !.failed = "recs"], 500, "error")
         ELSE IF Len(d.summaries) = Len(r.profiles)
              THEN Respond([d EXCEPT !.body = [t |-> "array", a |-> d.summaries]],
                           200, "summaries")
              ELSE d]
  /\ UNCHANGED <<variant, jwtSecret, today, research, created, logs, bucket, issued, arrived>>

\* midnight passes
Tick ==
  /\ today < MaxDay
  /\ today' = today + 1
  /\ UNCHANGED <<variant, jwtSecret, research, created, logs, bucket, issued, arrived, reqs>>

\* ----------------------------------------------------------- write handlers
Descriptions == {Undefined, Str(<<>>), Str(<<" ", " ">>), Str(<<"n">>)}
JsonDescriptions == Descriptions \cup {Num(5)}
FileUrls == {Undefined, Txt("http://f")}

\* POST /api/log
Log(s) ==
  LET r == reqs[s] IN
  /\ r.pc = "handler" /\ r.route = "log"
  /\ \E d \in {Undefined, Str(<<"n">>)}, uid \in BodyUserIds, o \in Outcomes :
       LET b == [r EXCEPT !.handler = TRUE, !.description = d, !.user_id = uid]
           c == [b EXCEPT !.calls = @ + 1]
           row == [user_id |-> uid.v, description |-> d, action |-> Null]
       IN IF ~Truthy(d) \/ ~Truthy(uid)
          THEN /\ reqs' = [reqs EXCEPT ![s] =
                             Respond(b, 400, "Description and user_id are required")]
               /\ UNCHANGED logs
          ELSE IF o = "ok"
          THEN /\ reqs' = [reqs EXCEPT ![s] =
                             Respond([c EXCEPT !.entries = @ + 1], 201, "entry")]
               /\ logs' = InsertRow(logs, row)
          ELSE /\ reqs' = [reqs EXCEPT ![s] = Respond(c, 500, "error")]
               /\ UNCHANGED logs
  /\ UNCHANGED <<variant, jwtSecret, today, research, created, bucket, issued, arrived>>

\* the description check of POST /api/research: TRUE when it answers 400
ResearchDescriptionRejected(v, d) ==
  IF v = V_Server
  THEN ~Truthy(d) \/ (d.t = "string" /\ Trim(d.s) = <<>>)
  ELSE ~Truthy(d)

\* description.trim() of a value that is not a string throws a TypeError
TrimThrows(v, d) == v = V_Server /\ Truthy(d) /\ d.t # "string"

\* a handler that lets the body name the owner of the row
newResearch_BodyUserId(v, description, file_url, body_user_id, user) ==
  [ description |-> description,
    file_url |-> IF v # V_Server /\ Truthy(file_url) THEN file_url ELSE Null,
    user_id |-> IF Truthy(body_user_id) THEN body_user_id.v ELSE user ]

\* the row POST /api/research builds
newResearch(v, description, file_url, body_user_id, user) ==
  [ description |-> description,
    file_url |-> IF v # V_Server /\ Truthy(file_url) THEN file_url ELSE Null,
    user_id |-> user ]

\* POST /api/research
ResearchCreate(s) ==
  LET r == reqs[s] IN
  /\ r.pc = "handler" /\ r.route = "research"
  /\ \E d \in JsonDescriptions, f \in FileUrls, uid \in BodyUserIds, o \in Outcomes :
       LET b == [r EXCEPT !.handler = TRUE, !.description = d, !.file_url = f,
                          !.user_id = uid]
           c == [b EXCEPT !.calls = @ + 1]
           row == newResearch(variant, d, f, uid, r.user)
       IN IF ResearchDescriptionRejected(variant, d)
          THEN /\ reqs' = [reqs EXCEPT ![s] = Respond(b, 400, "Description is required")]
               /\ UNCHANGED <<research, created>>
          ELSE IF TrimThrows(variant, d)
          THEN /\ reqs' = [reqs EXCEPT ![s] = Respond(b, 500, "error")]
               /\ UNCHANGED <<research, created>>
          ELSE IF o = "ok"
          THEN /\ reqs' = [reqs EXCEPT ![s] =
                  Respond([c EXCEPT !.records = @ + 1, !.inserted = row], 201, "record")]
               /\ research' = InsertRow(research, row)
               /\ created' = InsertRow(created, today)
          ELSE /\ reqs' = [reqs EXCEPT ![s] = Respond(c, 500, "error")]
               /\ UNCHANGED <<research, created>>
  /\ UNCHANGED <<variant, jwtSecret, today, logs, bucket, issued, arrived>>

\* ------------------------------------------------------------------ upload
FileSizes == {FileSizeLimit, ElevenMiB}
FileNames == {<<"a", ".", "P">>, <<"a">>}
Files == {NoFile} \cup {File(m, z, n) : m \in {Pdf, Zip}, z \in FileSizes, n \in FileNames}

Uuids == 1..MaxUuid

\* upload.single("file"): "ok" when it calls next(), else the error it passes
\* to next(err). The fileFilter runs when the file part starts, the size limit
\* trips while its bytes are read.
uploadSingle(v, file) ==
  IF v = V_Delegated /\ file.present
  THEN IF file.mimetype \notin allowedMimeTypes THEN "Invalid file type"
       ELSE IF file.size > FileSizeLimit THEN "File too large"
       ELSE "ok"
  ELSE "ok"

\* the multer middleware of POST /api/upload parses a multipart body with
\* one of the given descriptions and files
MulterParse(s, descriptions, files) ==
  LET r == reqs[s] IN
  /\ r.pc = "multer"
  /\ \E d \in descriptions, f \in files :
       LET b == [r EXCEPT !.description = d, !.file = f] IN
       reqs' = [reqs EXCEPT ![s] =
                  IF uploadSingle(variant, f) = "ok"
                  THEN [b EXCEPT !.pc = "handler"]
                  ELSE ExpressDefaultError(b, uploadSingle(variant, f))]
  /\ UNCHANGED <<variant, jwtSecret, today, research, created, logs, bucket, issued, arrived>>

\* the multer middleware of POST /api/upload
Multer(s) == MulterParse(s, Descriptions, Files)

\* the checks of the upload handler before its first external call: the
\* message of the 400 it answers, "" when it goes on
UploadRejected(v, d, file) ==
  IF v = V_Delegated
  THEN IF ~Truthy(d) \/ Trim(d.s) = <<>> THEN "Description is required"
       ELSE IF file.present /\ ToLower(ExtName(file.originalname)) = <<>>
            THEN "File extension missing or invalid"
            ELSE ""
  ELSE IF ~Truthy(d) \/ ~file.present THEN "Description and file are required"
       ELSE ""

\* fileExt of the upload handler
FileExt(v, file) ==
  IF v = V_Delegated THEN ToLower(ExtName(file.originalname))
                     ELSE ExtName(file.originalname)

\* POST /api/upload up to its first await
UploadValidate(s) ==
  LET r == reqs[s]
      h == [r EXCEPT !.handler = TRUE]
      m == UploadRejected(variant, r.description, r.file)
  IN
  /\ r.pc = "handler" /\ r.route = "upload"
  /\ \E u \in Uuids :
       reqs' = [reqs EXCEPT ![s] =
         IF m # "" THEN Respond(h, 400, m)
         ELSE IF r.file.present
              THEN [h EXCEPT !.pc = "storage",
                             !.fileName = FileName(u, FileExt(variant, r.file))]
              ELSE [h EXCEPT !.pc = "insert"]]
  /\ UNCHANGED <<variant, jwtSecret, today, research, created, logs, bucket, issued, arrived>>

BucketKeys == {o.key : o \in bucket}

\* a write with upsert: true never finds the key taken
KeyTaken_Upsert(keys, k) == FALSE

\* upload(..., {upsert: false}): the store refuses a key that has an object
KeyTaken(keys, k) == k \in keys

\* the bucket after a write: it holds one object per key
PutObject(objects, obj) == {x \in objects : x.key # obj.key} \cup {obj}

\* a handler that logs the storage error and goes on
OnUploadError_Continue(c) == [c EXCEPT !.failed = "storage", !.pc = "insert"]

\* if (uploadError) return res.status(500).json({message: "File upload failed"})
OnUploadError(c) == Respond([c EXCEPT !.failed = "storage"], 500, "File upload failed")

\* storage.from(bucket).upload(fileName, buffer, {contentType, upsert: false})
\* and getPublicUrl
UploadStorage(s) ==
  LET r == reqs[s]
      c == [r EXCEPT !.calls = @ + 1]
  IN
  /\ r.pc = "storage"
  /\ \E o \in Outcomes :
       CASE o = "throw" ->
              /\ reqs' = [reqs EXCEPT ![s] =
                            Respond([c EXCEPT !.failed = "storage"], 500, "Server error")]
              /\ UNCHANGED bucket
         [] o = "ok" /\ ~KeyTaken(BucketKeys, r.fileName) ->
              /\ reqs' = [reqs EXCEPT ![s] =
                            [c EXCEPT !.pc = "insert", !.objects = @ + 1,
                                      !.url = PublicUrl(r.fileName)]]
              /\ bucket' = PutObject(bucket, [key |-> r.fileName,
                                               contentType |-> r.file.mimetype])
         [] OTHER ->
              \* the store answers an error, as it does for a key that exists
              /\ reqs' = [reqs EXCEPT ![s] = OnUploadError(c)]
              /\ UNCHANGED bucket
  /\ UNCHANGED <<variant, jwtSecret, today, research, created, logs, issued, arrived>>

\* a handler that removes the object it wrote when the insert fails
OnInsertError_Remove(objects, key) == {x \in objects : x.key # key}

\* the bucket after a failed insert: neither `if (insertError) return ...` nor
\* the catch block makes a storage call
OnInsertError(objects, key) == objects

\* from("research").insert({description, file_url, user_id}).select().single()
UploadInsert(s) ==
  LET r == reqs[s]
      c == [r EXCEPT !.calls = @ + 1]
      row == [description |-> r.description, file_url |-> r.url, user_id |-> r.user]
  IN
  /\ r.pc = "insert"
  /\ \E o \in Outcomes :
       CASE o = "ok" ->
              /\ reqs' = [reqs EXCEPT ![s] =
                            [c EXCEPT !.pc = "log", !.records = @ + 1, !.inserted = row]]
              /\ research' = InsertRow(research, row)
              /\ created' = InsertRow(created, today)
              /\ UNCHANGED bucket
         [] o = "error" ->
              /\ reqs' = [reqs EXCEPT ![s] =
                   Respond([c EXCEPT !.failed = "insert"], 500, "Research insert failed")]
              /\ bucket' = OnInsertError(bucket, r.fileName)
              /\ UNCHANGED <<research, created>>
         [] o = "throw" ->
              /\ reqs' = [reqs EXCEPT ![s] =
                   Respond([c EXCEPT !.failed = "insert"], 500, "Server error")]
              /\ bucket' = OnInsertError(bucket, r.fileName)
              /\ UNCHANGED <<research, created>>
  /\ UNCHANGED <<variant, jwtSecret, today, logs, issued, arrived>>

\* await from("logs").insert({user_id, action}), then res.status(201)
UploadLog(s) ==
  LET r == reqs[s]
      c == [r EXCEPT !.calls = @ + 1]
      row == [user_id |-> r.user, description |-> Null, action |-> r.description]
  IN
  /\ r.pc = "log"
  /\ \E o \in Outcomes :
       CASE o = "ok" ->
              /\ reqs' = [reqs EXCEPT ![s] =
                            Respond([c EXCEPT !.entries = @ + 1], 201, "Upload successful")]
              /\ logs' = InsertRow(logs, row)
         [] o = "error" ->
              \* the returned error is not read
              /\ reqs' = [reqs EXCEPT ![s] =
                            Respond([c EXCEPT !.failed = "log"], 201, "Upload successful")]
              /\ UNCHANGED logs
         [] o = "throw" ->
              /\ reqs' = [reqs EXCEPT ![s] =
                            Respond([c EXCEPT !.failed = "log"], 500, "Server error")]
              /\ UNCHANGED logs
  /\ UNCHANGED <<variant, jwtSecret, today, research, created, bucket, issued, arrived>>

\* ----------------------------------------------------------- specification
Step(s) ==
  \/ Arrive(s)
  \/ verifyAuthLocal(s)
  \/ verifyAuthDelegated(s)
  \/ LoginProvider(s)
  \/ LoginPlaintext(s)
  \/ AnonKey(s)
  \/ DevImage(s)
  \/ Members(s)
  \/ SummaryList(s)
  \/ SummaryQuery(s)
  \/ Me(s)
  \/ ResearchList(s)
  \/ Log(s)
  \/ ResearchCreate(s)
  \/ Multer(s)
  \/ UploadValidate(s)
  \/ UploadStorage(s)
  \/ UploadInsert(s)
  \/ UploadLog(s)

\* requests are handled one after the other
Next == \E s \in SeqSlots : Step(s)

Spec == Init /\ [][Next]_vars

\* the routes that write or read created_at, and login
ClockRoutes == {"login", "research", "summary"}

StepClock(s) ==
  \/ ArriveRoute(s, ClockRoutes)
  \/ verifyAuthLocal(s)
  \/ verifyAuthDelegated(s)
  \/ LoginProvider(s)
  \/ LoginPlaintext(s)
  \/ ResearchCreate(s)
  \/ SummaryList(s)
  \/ SummaryQuery(s)

\* the same server with the calendar moving under it
NextClock == Tick \/ \E s \in SeqSlots : StepClock(s)

SpecClock == Init /\ [][NextClock]_vars

\* iterations that have the upload route
UploadVariants == {V_ProviderJwt, V_Delegated}

\* a deployment with an upload route after account 1 has logged in
InitUploads ==
  /\ variant \in UploadVariants
  /\ jwtSecret \in JwtSecrets
  /\ today = 0
  /\ research = <<>>
  /\ created = <<>>
  /\ logs = <<>>
  /\ bucket = {}
  /\ issued = {<<LoginToken(variant, jwtSecret, 1), ProfilesTable[1].id>>}
  /\ arrived = 1   \* the login
  /\ reqs = [s \in Slots |-> IdleReq]

\* the bodies the concurrent clients send: the same few, so that identical
\* uploads meet
UploadDescriptions == {Str(<<"n">>), Str(<<" ", " ">>)}
UploadFiles ==
  {NoFile, File(Pdf, FileSizeLimit, <<"a", ".", "P">>), File(Zip, FileSizeLimit, <<"a">>)}

StepUpload(s) ==
  \/ ArriveRoute(s, {"upload"})
  \/ verifyAuthLocal(s)
  \/ verifyAuthDelegated(s)
  \/ MulterParse(s, UploadDescriptions, UploadFiles)
  \/ UploadValidate(s)
  \/ UploadStorage(s)
  \/ UploadInsert(s)
  \/ UploadLog(s)

\* upload requests on two connections, their awaits interleaved
NextUploads == \E s \in Slots : StepUpload(s)

SpecUploads == InitUploads /\ [][NextUploads]_vars

\* ------------------------------------------------------------------ claims
\* the request has passed verifyAuth
Authenticated(r) ==
  r.route \in AuthRoutes /\ r.pc \notin {"idle", "auth"} /\ r.status # 401

\* the header is absent or does not start with "Bearer "
NoBearerPrefix(h) ==
  h.t = "undefined" \/ Len(h.words) < 2 \/ h.words[1] # "Bearer"

\* the description is missing, empty or only whitespace
Blank(d) == d.t = "undefined" \/ (d.t = "string" /\ \A i \in DOMAIN d.s : d.s[i] = " ")

\* nothing was written to the bucket, research or logs by the request
WroteNothing(r) == r.objects = 0 /\ r.records = 0 /\ r.entries = 0

\* C1: on every route registered with verifyAuth, a request whose
\* Authorization header is absent or lacks the "Bearer " prefix is answered
\* 401 "Authorization header missing or invalid" by the middleware, its route
\* handler never runs and it makes no external call.
C1_NoBearerIs401 ==
  \A s \in Slots :
    LET r == reqs[s] IN
    (r.route \in AuthRoutes /\ r.pc \notin {"idle", "auth"} /\ NoBearerPrefix(r.hdr))
      => /\ r.pc = "done"
         /\ r.status = 401
         /\ r.message = "Authorization header missing or invalid"
         /\ r.by = "service"
         /\ ~r.handler
         /\ r.calls = 0
         /\ WroteNothing(r)

\* a header with a scheme other than "Bearer " was rejected
C1_Witness ==
  \E s \in Slots :
    /\ reqs[s].pc = "done" /\ reqs[s].route = "upload"
    /\ reqs[s].hdr.t = "header" /\ NoBearerPrefix(reqs[s].hdr)
    /\ reqs[s].status = 401

\* C2: the access_token a successful login returned, presented to the same
\* deployment's verifyAuth, is accepted and req.user.id is the id of the
\* account that logged in (failures of the provider call itself set aside).
C2_LoginTokenAuthenticates ==
  \A s \in Slots :
    LET r == reqs[s] IN
    \A p \in issued :
      ( /\ r.route \in AuthRoutes /\ r.pc \notin {"idle", "auth"}
        /\ ~NoBearerPrefix(r.hdr) /\ r.hdr.words[2] = p[1]
        /\ r.failed # "auth" )
        => r.status # 401 /\ r.user = p[2]

\* C3: in the upload handler a failed storage write ends the request with 500
\* and without a research record or log entry of that request; a failed
\* research insert ends it with 500 and without a log entry.
C3_StepsGate ==
  \A s \in Slots :
    LET r == reqs[s] IN
    /\ (r.route = "upload" /\ r.failed = "storage")
         => r.pc = "done" /\ r.status = 500 /\ r.records = 0 /\ r.entries = 0
    /\ (r.route = "upload" /\ r.failed = "insert")
         => r.pc = "done" /\ r.status = 500 /\ r.records = 0 /\ r.entries = 0

\* the research insert failed after the file was stored
C3_Witness ==
  \E s \in Slots :
    /\ reqs[s].route = "upload" /\ reqs[s].failed = "insert"
    /\ reqs[s].objects = 1 /\ reqs[s].status = 500

\* C4: the upload handler answers 201 only if the storage write, the research
\* insert and the log insert all succeeded.
C4_201OnlyIfAllSteps ==
  \A s \in Slots :
    LET r == reqs[s] IN
    (r.route = "upload" /\ r.status = 201)
      => r.failed = "" /\ r.records = 1 /\ r.entries = 1

\* C5: an authenticated upload (with a description) of a file whose type is
\* not allowed is answered 400 with the invalid-file-type message, and no
\* object, research record or log entry of that request exists.
C5_BadTypeIs400 ==
  \A s \in Slots :
    LET r == reqs[s] IN
    ( /\ r.route = "upload" /\ Authenticated(r) /\ r.pc = "done"
      /\ ~Blank(r.description)
      /\ r.file.present /\ r.file.mimetype \notin allowedMimeTypes )
      => r.status = 400 /\ r.message = "Invalid file type" /\ WroteNothing(r)

\* C6: an authenticated upload (with a description) of an allowed file larger
\* than 10 MiB is answered 400, the file is not stored and no research record
\* is created.
C6_TooLargeIs400 ==
  \A s \in Slots :
    LET r == reqs[s] IN
    ( /\ r.route = "upload" /\ Authenticated(r) /\ r.pc = "done"
      /\ ~Blank(r.description)
      /\ r.file.present /\ r.file.mimetype \in allowedMimeTypes
      /\ r.file.size > 10 * 1024 * 1024 )
      => r.status = 400 /\ r.objects = 0 /\ r.records = 0

\* the multipart body of the request has been parsed
BodyParsed(r) == r.route = "upload" /\ Authenticated(r) /\ r.pc # "multer"

\* C7: an authenticated upload whose description is missing, empty or blank
\* (its file, if any, being acceptable) writes nothing and is answered 400.
C7_BlankDescriptionIs400 ==
  \A s \in Slots :
    LET r == reqs[s] IN
    ( /\ BodyParsed(r) /\ Blank(r.description)
      /\ r.file.present =>
           r.file.mimetype \in allowedMimeTypes /\ r.file.size <= 10 * 1024 * 1024 )
      => WroteNothing(r) /\ (r.pc = "done" => r.status = 400)

\* C8: part_002 validates description, then type, then size: a blank
\* description with a bad file is answered "Description is required", a
\* disallowed and oversized file is answered with the invalid-type error.
C8_ValidationOrder ==
  \A s \in Slots :
    LET r == reqs[s]
        badType == r.file.present /\ r.file.mimetype \notin allowedMimeTypes
        tooLarge == r.file.present /\ r.file.size > 10 * 1024 * 1024
    IN
    (variant = V_Delegated /\ BodyParsed(r) /\ r.pc = "done")
      => /\ (Blank(r.description) /\ (badType \/ tooLarge))
              => r.status = 400 /\ r.message = "Description is required"
         /\ (~Blank(r.description) /\ badType /\ tooLarge)
              => r.status = 400 /\ r.message = "Invalid file type"

\* C9: a POST /api/research that inserts its row answers 201, and the row's
\* user_id is req.user.id, the account of the presented token, whatever the
\* body carries; file_url is null when the body has none.
C9_UserIdFromPrincipal ==
  \A s \in Slots :
    LET r == reqs[s] IN
    (r.route = "research" /\ r.pc = "done" /\ (r.records > 0 \/ r.status = 201))
      => /\ r.status = 201 /\ r.records = 1
         /\ r.inserted.user_id = r.user
         /\ <<r.token, r.inserted.user_id>> \in issued
         /\ research # <<>> /\ research[Len(research)] = r.inserted
         /\ (r.file_url = Undefined => r.inserted.file_url = Null)

\* u1 created a record while the body named u2 and gave no file_url
C9_Witness ==
  \E s \in Slots :
    /\ reqs[s].route = "research" /\ reqs[s].status = 201
    /\ reqs[s].user = "u1" /\ reqs[s].user_id = Txt("u2")
    /\ reqs[s].file_url = Undefined
    /\ reqs[s].inserted.user_id = "u1" /\ reqs[s].inserted.file_url = Null

\* C10: an authenticated POST /api/research whose description is missing,
\* empty or only whitespace is answered 400 and inserts no record.
C10_BlankDescriptionIs400 ==
  \A s \in Slots :
    LET r == reqs[s] IN
    (r.route = "research" /\ r.handler /\ r.pc = "done" /\ Blank(r.description))
      => r.status = 400 /\ r.records = 0

\* C11: a login with email and password present answers 401 "Invalid
\* credentials" when no account matches the email or the password differs,
\* and answers 500 only when the provider/store call itself failed.
C11_BadCredentialsIs401 ==
  \A s \in Slots :
    LET r == reqs[s]
        matches == {i \in DOMAIN ProfilesTable :
                      /\ r.email = Txt(ProfilesTable[i].email)
                      /\ r.password = Txt(ProfilesTable[i].password)}
    IN
    (r.route = "login" /\ r.pc = "done" /\ r.email # Undefined /\ r.password # Undefined)
      => /\ (matches = {} /\ r.failed = "")
              => r.status = 401 /\ r.message = "Invalid credentials"
         /\ r.status = 500 => r.failed = "login"

\* the request carries "Bearer <token>" and the token is no JWT, is expired,
\* is not signed with the key the verifier checks against, or the provider
\* lookup itself failed
TokenFailsVerification(r) ==
  /\ r.route \in AuthRoutes /\ r.pc \notin {"idle", "auth"}
  /\ ~NoBearerPrefix(r.hdr)
  /\ LET t == r.hdr.words[2] IN
       \/ ~t.jwt
       \/ t.expired
       \/ t.key # (IF variant = V_Delegated THEN SupabaseJwtSecret ELSE jwtSecret)
       \/ r.failed = "auth"

\* the request was turned away by verifyAuth with this status and nothing else
RejectedByAuth(r) ==
  r.pc = "done" /\ r.status = 401 /\ r.by = "service" /\ ~r.handler /\ WroteNothing(r)

\* C12 as claimed: a well-formed Bearer header whose token fails verification
\* is answered 401 "Invalid or expired token", the handler never runs and
\* nothing is written.
C12_InvalidTokenIs401 ==
  \A s \in Slots :
    TokenFailsVerification(reqs[s])
      => RejectedByAuth(reqs[s]) /\ reqs[s].message = "Invalid or expired token"

\* C12 as amended: the answer is 401, the handler never runs and nothing is
\* written; the message is "Invalid or expired token", except that part_002
\* answers "Token verification failed" when the provider lookup throws.
C12_InvalidTokenIs401_Amended ==
  \A s \in Slots :
    LET r == reqs[s] IN
    TokenFailsVerification(r)
      => /\ RejectedByAuth(r)
         /\ r.message \in {"Invalid or expired token", "Token verification failed"}
         /\ r.message = "Token verification failed"
              => variant = V_Delegated /\ r.failed = "auth" /\ r.calls = 1
         /\ variant # V_Delegated => r.calls = 0

\* an expired token of the right signer was turned away
C12_Witness ==
  \E s \in Slots :
    /\ reqs[s].route = "research" /\ reqs[s].pc = "done"
    /\ ~NoBearerPrefix(reqs[s].hdr)
    /\ reqs[s].hdr.words[2].jwt /\ reqs[s].hdr.words[2].expired
    /\ reqs[s].hdr.words[2].key = LoginKey(variant, jwtSecret)
    /\ reqs[s].status = 401 /\ reqs[s].message = "Invalid or expired token"

\* C13: within one summary request every per-profile query uses the same
\* window bounds, also when midnight passes while the request is served.
C13_OneWindowPerRequest ==
  \A s \in Slots :
    LET r == reqs[s] IN
    r.route = "summary"
      => \A i, j \in DOMAIN r.windows : r.windows[i] = r.windows[j]

\* C14: an answered summary request either returns exactly one
\* {id, name, recs} element per listed profile, in the order of the listing,
\* or, when the listing or any per-profile query failed, answers 500 with no
\* array at all.
C14_OnePerProfileOrFail ==
  \A s \in Slots :
    LET r == reqs[s] IN
    (r.route = "summary" /\ r.pc = "done" /\ r.handler)
      => /\ r.status \in {200, 500}
         /\ r.status = 200 <=> r.failed = ""
         /\ r.status = 500 => r.body = Null
         /\ r.status = 200 =>
              /\ r.body.t = "array"
              /\ Len(r.body.a) = Len(ProfilesTable)
              /\ Len(r.profiles) = Len(ProfilesTable)
              /\ \A k \in DOMAIN r.body.a :
                   /\ DOMAIN r.body.a[k] = {"id", "name", "recs"}
                   /\ r.body.a[k].id = ProfilesTable[r.profiles[k]].id
                   /\ r.body.a[k].name = ProfilesTable[r.profiles[k]].name
                   /\ \A n \in DOMAIN r.body.a[k].recs :
                        research[r.body.a[k].recs[n].id].user_id = r.body.a[k].id
              /\ \A k, l \in DOMAIN r.body.a :
                   r.body.a[k].id = r.body.a[l].id => k = l

\* a summary listing Bob before Ann was answered with a record in it
C14_Witness ==
  \E s \in Slots :
    /\ reqs[s].route = "summary" /\ reqs[s].pc = "done" /\ reqs[s].status = 200
    /\ reqs[s].profiles = <<2, 1>>
    /\ reqs[s].body.a[1].id = "u2"
    /\ \E k \in DOMAIN reqs[s].body.a : reqs[s].body.a[k].recs # <<>>

\* C15: every answered request was answered by the service's own code, with
\* a JSON body and a status among 200, 201, 400, 401 and 500; no error is
\* left to the framework.
C15_NoErrorEscapes ==
  \A s \in Slots :
    reqs[s].pc = "done"
      => reqs[s].by = "service" /\ reqs[s].status \in {200, 201, 400, 401, 500}

\* every row of the table before the step is still there, unchanged and at
\* the same place, after it
RowsKept(before, after) ==
  Len(before) <= Len(after) /\ \A i \in DOMAIN before : after[i] = before[i]

\* C16: no step of any handler updates or deletes a row of research or of
\* logs: a table after a step is the table before it, possibly with rows
\* appended. (No handler writes profiles at all.)
C16_AppendOnly ==
  [][ /\ RowsKept(research, research')
      /\ RowsKept(created, created')
      /\ RowsKept(logs, logs') ]_vars

\* a second row was inserted into a table that already held one
C16_Witness ==
  /\ Len(research) >= 2
  /\ research[1] # research[2]
  /\ \E s \in Slots : reqs[s].pc = "done" /\ reqs[s].records = 1

\* two upload requests, each of which has written its file to the bucket
BothStored(a, b) ==
  /\ a.route = "upload" /\ b.route = "upload"
  /\ a.objects = 1 /\ b.objects = 1

\* the research table has two different rows, one for each of the two urls
TwoRecords(u, v) ==
  \E i, j \in DOMAIN research :
    i # j /\ research[i].file_url = u /\ research[j].file_url = v

\* C17: in every interleaving of upload requests, a request writes its file
\* under a key that held no object, no step removes or replaces an object of
\* the bucket, two requests that have stored their files hold different keys
\* that are both in the bucket, and when both were answered 201 the research
\* table holds one record for each, also when files and descriptions are equal.
C17_FreshKeyNoOverwrite ==
  [][ /\ \A o \in bucket : o \in bucket'
      /\ \A s \in Slots :
           reqs'[s].objects > reqs[s].objects
             => /\ reqs[s].fileName \notin BucketKeys
                /\ bucket' = bucket \cup {[key |-> reqs[s].fileName,
                                          contentType |-> reqs[s].file.mimetype]}
      /\ \A s, t \in Slots :
           (s # t /\ BothStored(reqs'[s], reqs'[t]))
             => /\ reqs'[s].fileName # reqs'[t].fileName
                /\ {reqs'[s].fileName, reqs'[t].fileName} \subseteq {o.key : o \in bucket'}
                /\ (reqs'[s].status = 201 /\ reqs'[t].status = 201)
                     => \E i, j \in DOMAIN research' :
                          /\ i # j
                          /\ research'[i].file_url = PublicUrl(reqs'[s].fileName)
                          /\ research'[j].file_url = PublicUrl(reqs'[t].fileName) ]_vars

\* two uploads of the same file with the same description were both answered
\* 201 and left two objects and two records
C17_Witness ==
  /\ reqs["c1"].route = "upload" /\ reqs["c2"].route = "upload"
  /\ reqs["c1"].status = 201 /\ reqs["c2"].status = 201
  /\ reqs["c1"].file.present
  /\ reqs["c1"].file = reqs["c2"].file
  /\ reqs["c1"].description = reqs["c2"].description
  /\ reqs["c1"].fileName # reqs["c2"].fileName
  /\ Cardinality(bucket) = 2
  /\ TwoRecords(reqs["c1"].url, reqs["c2"].url)

====
